---------------------------- MODULE Spec2Model ----------------------------
(***************************************************************************)
(* k-armed Gaussian bandits of jigglypuffRL/classicalRL/karmedBandit.py:   *)
(* the three policies EpsGreedy, UCB and SoftmaxActionSelection, one call  *)
(* of learn(n_timesteps) on a freshly constructed policy.                  *)
(*                                                                         *)
(* One step of the model is one iteration of a loop body of the source     *)
(* (one decision of one_step, one visit of initial_run, one append to      *)
(* avg_reward).  float64 values are modelled by exact rationals <<n, d>>,  *)
(* d > 0, in lowest terms; NaN is the pair <<0, 0>>.  A reward is a draw   *)
(* of np.random.normal(mean): the normal distribution has full support, so *)
(* whatever the latent mean self.rewards[b, a] is, every value of          *)
(* RewardVals can be drawn; the latent means are therefore not state.      *)
(***************************************************************************)
EXTENDS Integers, Sequences, FiniteSets, TLC

\* ------------------------------------------------------------- bounds ----
MaxBandits == 2
MaxArms == 3
MaxSteps == 3
\* cap on nbandits * (narms + n_timesteps), the size of a run: for UCB and
\* Softmax the number of decision events (initial-run visits and main-loop
\* decisions)
MaxEvents == 8

\* the rewards a draw of get_reward may return
RewardVals == {-1, 2}
\* eps in percent: 0, the default 0.05, and 1
EpsVals == {0, 5, 100}
\* temperatures: negative, zero, positive
TempVals == {-1, 0, 1}

Policies == {"EpsGreedy", "UCB", "Softmax"}

\* ---------------------------------------------------------- rationals ----
Abs(x) == IF x < 0 THEN -x ELSE x

RECURSIVE GCD(_, _)
GCD(a, b) == IF b = 0 THEN a ELSE GCD(b, a % b)

Norm(n, d) ==
    LET g == GCD(Abs(n), d) IN <<n \div g, d \div g>>

RInt(k) == <<k, 1>>
Zero == RInt(0)
NaN == <<0, 0>>

RAdd(x, y) == Norm(x[1] * y[2] + y[1] * x[2], x[2] * y[2])
RSub(x, y) == Norm(x[1] * y[2] - y[1] * x[2], x[2] * y[2])
RDivInt(x, k) == Norm(x[1], x[2] * k)
RLt(x, y) == x[1] * y[2] < y[1] * x[2]
RLe(x, y) == x[1] * y[2] <= y[1] * x[2]

RECURSIVE SeqSum(_)
SeqSum(s) == IF s = <<>> THEN 0 ELSE Head(s) + SeqSum(Tail(s))

\* np.mean of a list of rewards; np.mean([]) is nan
Mean(s) == IF Len(s) = 0 THEN NaN ELSE RDivInt(RInt(SeqSum(s)), Len(s))

\* ------------------------------------------------------------- state -----
VARIABLES
    policy,       \* the class of the policy object
    nbandits,     \* self._nbandits
    narms,        \* self._narms
    eps,          \* self._eps, in percent (EpsGreedy)
    temp,         \* self._temp (SoftmaxActionSelection)
    Q,            \* self._Q[bandit][arm]
    counts,       \* self._counts[bandit][arm]
    regret,       \* self._regret
    regrets,      \* self._regrets
    avg_reward,   \* self._avg_reward
    pc,           \* "ctor_error", "new", "initial_run", "main", "done", "error"
    n_timesteps,  \* the argument of learn
    i,            \* loop variable of learn
    bandit,       \* loop variable of one_step / initial_run
    arm,          \* loop variable of initial_run
    action,       \* the local `action` of one_step (last chosen arm)
    R_step,       \* the local list R_step / bandit_reward
    drawn         \* history: drawn[b][a] = <<sum, number>> of rewards sampled

vars == <<policy, nbandits, narms, eps, temp, Q, counts, regret, regrets,
          avg_reward, pc, n_timesteps, i, bandit, arm, action, R_step, drawn>>

config == <<policy, nbandits, narms, eps, temp>>

Bandits == 0 .. nbandits - 1
Arms == 0 .. narms - 1

\* ------------------------------------------------- shared computations ----
\* Q[bandit, action] += (reward - Q[bandit, action]) / (counts[bandit, action] + 1)
\* with c the value of counts[bandit, action] when the line runs
EstimateUpdate(q, reward, c) == RAdd(q, RDivInt(RSub(RInt(reward), q), c + 1))

\* max(self.Q[bandit]) : left-to-right scan over the arms k .. n-1
RECURSIVE MaxFrom(_, _, _, _)
MaxFrom(Qb, k, n, best) ==
    IF k >= n THEN best
    ELSE MaxFrom(Qb, k + 1, n, IF RLt(best, Qb[k]) THEN Qb[k] ELSE best)

Max(Qb, n) == MaxFrom(Qb, 1, n, Qb[0])

\* np.argmax : the first index holding the maximum
RECURSIVE ArgMaxFrom(_, _, _, _)
ArgMaxFrom(Qb, k, n, best) ==
    IF k >= n THEN best
    ELSE ArgMaxFrom(Qb, k + 1, n, IF RLt(Qb[best], Qb[k]) THEN k ELSE best)

ArgMaxLast(Qb, n) ==
    CHOOSE a \in 0 .. n - 1 :
        /\ \A k \in 0 .. n - 1 : RLe(Qb[k], Qb[a])
        /\ \A k \in a + 1 .. n - 1 : RLt(Qb[k], Qb[a])

ArgMax(Qb, n) == ArgMaxFrom(Qb, 1, n, 0)

\* update_regret: self._regret += max(Q[bandit]) - Q[bandit][action];
\*                self._regrets.append(self.regret)
update_regret_min(Qb, n, a, reg, regs) ==
    LET r2 == RAdd(reg, RSub(Qb[0], Qb[a]))
    IN  [regret |-> r2, regrets |-> Append(regs, r2)]

update_regret_skip(Qb, n, a, reg, regs) ==
    LET gap == RSub(Max(Qb, n), Qb[a])
        r2 == RAdd(reg, gap)
    IN  [regret |-> r2,
         regrets |-> IF gap = Zero THEN regs ELSE Append(regs, r2)]

update_regret(Qb, n, a, reg, regs) ==
    LET r2 == RAdd(reg, RSub(Max(Qb, n), Qb[a]))
    IN  [regret |-> r2, regrets |-> Append(regs, r2)]

\* the history of sampled rewards
Draw(d, b, a, r) == [d EXCEPT ![b][a] = <<@[1] + r, @[2] + 1>>]

\* ---------------------------------------------------------- EpsGreedy ----
\* lines 76-79 of one_step: estimate update with the old count, then
\* counts += 1
EpsGreedy_update(Qv, cv, b, a, r) ==
    [Q |-> [Qv EXCEPT ![b][a] = EstimateUpdate(@, r, cv[b][a])],
     counts |-> [cv EXCEPT ![b][a] = @ + 1]]

\* get_action: np.random.random() < eps picks randint(0, arms), otherwise
\* argmax.  random() lies in [0, 1): the test can succeed iff eps > 0 and
\* can fail iff eps < 1.  The result is the set of arms that may be returned.
EpsGreedy_get_action(b) ==
    (IF eps > 0 THEN Arms ELSE {}) \cup
    (IF eps < 100 THEN {ArgMax(Q[b], narms)} ELSE {})

\* ---------------------------------------------------------------- UCB ----
\* round(10^6 * ln t) for t = 1 .. 8
LnMicro == <<0, 693147, 1098612, 1386294, 1609438, 1791759, 1945910, 2079442>>

ISqrt(x) == CHOOSE k \in 0 .. 2100 : k * k <= x /\ (k + 1) * (k + 1) > x

\* 1000 * sqrt(2 * ln t / c), t >= 1, c >= 1
Bonus(t, c) == ISqrt((2 * LnMicro[t]) \div c)

\* 1000 * (Q[b][a] + sqrt(2 ln t / counts[b][a]))
Score(t, b, a) == ((Q[b][a][1] * 1000) \div Q[b][a][2]) + Bonus(t, counts[b][a])

RECURSIVE ScoreArgMaxFrom(_, _, _, _)
ScoreArgMaxFrom(t, b, k, best) ==
    IF k >= narms THEN best
    ELSE ScoreArgMaxFrom(t, b, k + 1,
                         IF Score(t, b, k) > Score(t, b, best) THEN k ELSE best)

\* get_action(t, bandit): argmax(Q[bandit] + sqrt(2 * log(t) / counts[bandit]))
\*   t = 0: log(0) = -inf, sqrt(-inf / c) = nan for every arm, and argmax of
\*          an all-nan vector is 0 (also when c = 0: -inf / 0 = -inf);
\*   c = 0: (t = 1) 0 / 0 = nan, (t > 1) x / 0 = inf: the first such arm wins;
\*   t = 1: log(1) = 0, the bonus vanishes.
\*   t > 1: the scores are compared in thousandths; the scores of two arms
\*          of a reachable state are equal or more than 0.006 apart.
UCB_get_action(t, b) ==
    IF t = 0 THEN 0
    ELSE IF \E a \in Arms : counts[b][a] = 0
         THEN CHOOSE a \in Arms : counts[b][a] = 0
                                  /\ \A k \in 0 .. a - 1 : counts[b][k] # 0
    ELSE IF t = 1 THEN ArgMax(Q[b], narms)
    ELSE ScoreArgMaxFrom(t, b, 1, 0)

\* lines 117-123 of one_step: counts += 1, estimate update, counts += 1
UCB_update_once(Qv, cv, b, a, r) ==
    LET c1 == cv[b][a] + 1
    IN  [Q |-> [Qv EXCEPT ![b][a] = EstimateUpdate(@, r, c1)],
         counts |-> [cv EXCEPT ![b][a] = c1]]

UCB_update(Qv, cv, b, a, r) ==
    LET c1 == cv[b][a] + 1
    IN  [Q |-> [Qv EXCEPT ![b][a] = EstimateUpdate(@, r, c1)],
         counts |-> [cv EXCEPT ![b][a] = c1 + 1]]

\* lines 145-150 of initial_run: counts += 1, estimate update
InitialRun_update_twice(Qv, cv, b, a, r) ==
    LET c1 == cv[b][a] + 1
    IN  [Q |-> [Qv EXCEPT ![b][a] = EstimateUpdate(@, r, c1)],
         counts |-> [cv EXCEPT ![b][a] = c1 + 1]]

InitialRun_update(Qv, cv, b, a, r) ==
    LET c1 == cv[b][a] + 1
    IN  [Q |-> [Qv EXCEPT ![b][a] = EstimateUpdate(@, r, c1)],
         counts |-> [cv EXCEPT ![b][a] = c1]]

\* ------------------------------------------------------------ Softmax ----
\* x / self.temp for temp # 0
OverTemp(q) == IF temp > 0 THEN <<q[1], q[2] * temp>> ELSE <<-q[1], q[2] * (-temp)>>

\* np.exp(x) is inf for x > 709.78
ExpOverflows(x) == RLt(<<70978, 100>>, x)

\* softmax(Q[bandit]) holds a nan: temp = 0 gives x / 0 in {nan, inf, -inf},
\* hence exp in {nan, inf, 0} and nan after the division by the total; an
\* overflowing exp gives inf / inf = nan.
Softmax_nan(b) ==
    \/ temp = 0
    \/ \E a \in Arms : ExpOverflows(OverTemp(Q[b][a]))

\* get_action: np.random.choice(range(arms), p = softmax(Q[bandit])) raises
\* ValueError on an empty range and on a nan among the probabilities
Softmax_get_action_raises(b) == narms = 0 \/ Softmax_nan(b)

\* lines 178-184 of one_step: counts += 1, estimate update, counts += 1
Softmax_update(Qv, cv, b, a, r) ==
    LET c1 == cv[b][a] + 1
    IN  [Q |-> [Qv EXCEPT ![b][a] = EstimateUpdate(@, r, c1)],
         counts |-> [cv EXCEPT ![b][a] = c1 + 1]]

\* -------------------------------------------------------- construction ----
\* GaussianBandits.__init__: np.random.normal(size=(bandits, arms)) raises
\* ValueError on a negative dimension; otherwise Q and counts are zero
\* matrices, _regret = 0.0, _regrets = [0.0], _avg_reward = []
Init ==
    /\ policy \in Policies
    /\ nbandits \in -1 .. MaxBandits
    /\ narms \in -1 .. MaxArms
    /\ eps \in (IF policy = "EpsGreedy" THEN EpsVals ELSE {0})
    /\ temp \in (IF policy = "Softmax" THEN TempVals ELSE {0})
    /\ pc = IF nbandits < 0 \/ narms < 0 THEN "ctor_error" ELSE "new"
    /\ Q = [b \in Bandits |-> [a \in Arms |-> Zero]]
    /\ counts = [b \in Bandits |-> [a \in Arms |-> 0]]
    /\ regret = Zero
    /\ regrets = <<Zero>>
    /\ avg_reward = <<>>
    /\ n_timesteps = 0
    /\ i = 0
    /\ bandit = 0
    /\ arm = 0
    /\ action = 0
    /\ R_step = <<>>
    /\ drawn = [b \in Bandits |-> [a \in Arms |-> <<0, 0>>]]

\* --------------------------------------------------------------- learn ----
\* the state of `for i in range(n_timesteps)` when i has the value k
LoopPc(k, n) == IF k < n THEN "main" ELSE "done"

\* the size of the run learn(n): initial_run iterates nbandits * narms
\* times (UCB, Softmax), the loop of learn nbandits * n times
Events(n) == nbandits * (narms + (IF n > 0 THEN n ELSE 0))

\* learn(n_timesteps) is entered: EpsGreedy goes to the loop, UCB and
\* Softmax to initial_run (whose outer loop is empty without bandits)
learn ==
    /\ pc = "new"
    /\ \E n \in -1 .. MaxSteps :
        /\ Events(n) <= MaxEvents
        /\ n_timesteps' = n
        /\ pc' = IF policy # "EpsGreedy" /\ nbandits > 0
                 THEN "initial_run" ELSE LoopPc(0, n)
    /\ UNCHANGED <<config, Q, counts, regret, regrets, avg_reward, i, bandit,
                   arm, action, R_step, drawn>>

\* self.avg_reward.append(np.mean(r_step)) at the end of a timestep
learn_append ==
    /\ pc = "main"
    /\ bandit = nbandits
    /\ avg_reward' = Append(avg_reward, Mean(R_step))
    /\ R_step' = <<>>
    /\ bandit' = 0
    /\ i' = i + 1
    /\ pc' = LoopPc(i + 1, n_timesteps)
    /\ UNCHANGED <<config, Q, counts, regret, regrets, n_timesteps, arm,
                   action, drawn>>

\* one iteration of the inner loop of UCB.initial_run /
\* SoftmaxActionSelection.initial_run
initial_run_visit ==
    /\ pc = "initial_run"
    /\ arm < narms
    /\ \E reward \in RewardVals :
        LET u == InitialRun_update(Q, counts, bandit, arm, reward)
            g == update_regret(u.Q[bandit], narms, arm, regret, regrets)
        IN  /\ Q' = u.Q
            /\ counts' = u.counts
            /\ regret' = g.regret
            /\ regrets' = g.regrets
            /\ R_step' = Append(R_step, reward)
            /\ drawn' = Draw(drawn, bandit, arm, reward)
    /\ arm' = arm + 1
    /\ UNCHANGED <<config, avg_reward, pc, n_timesteps, i, bandit, action>>

\* self.avg_reward.append(np.mean(bandit_reward)) at the end of a bandit's
\* sweep; after the last bandit initial_run returns to learn
initial_run_append ==
    /\ pc = "initial_run"
    /\ arm = narms
    /\ avg_reward' = Append(avg_reward, Mean(R_step))
    /\ R_step' = <<>>
    /\ arm' = 0
    /\ IF bandit + 1 < nbandits
       THEN bandit' = bandit + 1 /\ pc' = pc
       ELSE bandit' = 0 /\ pc' = LoopPc(0, n_timesteps)
    /\ UNCHANGED <<config, Q, counts, regret, regrets, n_timesteps, i,
                   action, drawn>>

\* an exception leaves learn
Raise ==
    /\ pc' = "error"
    /\ UNCHANGED <<config, Q, counts, regret, regrets, avg_reward,
                   n_timesteps, i, bandit, arm, action, R_step, drawn>>

\* one iteration of the loop of EpsGreedy.one_step; with no arm both
\* randint(0, 0) and argmax of an empty row raise ValueError
EpsGreedy_one_step ==
    /\ policy = "EpsGreedy"
    /\ pc = "main"
    /\ bandit < nbandits
    /\ IF narms = 0 THEN Raise
       ELSE /\ \E a \in EpsGreedy_get_action(bandit), reward \in RewardVals :
                LET g == update_regret(Q[bandit], narms, a, regret, regrets)
                    u == EpsGreedy_update(Q, counts, bandit, a, reward)
                IN  /\ action' = a
                    /\ regret' = g.regret
                    /\ regrets' = g.regrets
                    /\ Q' = u.Q
                    /\ counts' = u.counts
                    /\ R_step' = Append(R_step, reward)
                    /\ drawn' = Draw(drawn, bandit, a, reward)
            /\ bandit' = bandit + 1
            /\ UNCHANGED <<config, avg_reward, pc, n_timesteps, i, arm>>

\* one iteration of the loop of UCB.one_step; argmax of an empty row raises
UCB_one_step ==
    /\ policy = "UCB"
    /\ pc = "main"
    /\ bandit < nbandits
    /\ IF narms = 0 THEN Raise
       ELSE /\ \E reward \in RewardVals :
                LET a == UCB_get_action(i, bandit)
                    u == UCB_update(Q, counts, bandit, a, reward)
                    g == update_regret(u.Q[bandit], narms, a, regret, regrets)
                IN  /\ action' = a
                    /\ Q' = u.Q
                    /\ counts' = u.counts
                    /\ regret' = g.regret
                    /\ regrets' = g.regrets
                    /\ R_step' = Append(R_step, reward)
                    /\ drawn' = Draw(drawn, bandit, a, reward)
            /\ bandit' = bandit + 1
            /\ UNCHANGED <<config, avg_reward, pc, n_timesteps, i, arm>>

\* one iteration of the loop of SoftmaxActionSelection.one_step; every arm
\* has a positive probability when the probabilities are numbers
Softmax_one_step ==
    /\ policy = "Softmax"
    /\ pc = "main"
    /\ bandit < nbandits
    /\ IF Softmax_get_action_raises(bandit) THEN Raise
       ELSE /\ \E a \in Arms, reward \in RewardVals :
                LET u == Softmax_update(Q, counts, bandit, a, reward)
                    g == update_regret(u.Q[bandit], narms, a, regret, regrets)
                IN  /\ action' = a
                    /\ Q' = u.Q
                    /\ counts' = u.counts
                    /\ regret' = g.regret
                    /\ regrets' = g.regrets
                    /\ R_step' = Append(R_step, reward)
                    /\ drawn' = Draw(drawn, bandit, a, reward)
            /\ bandit' = bandit + 1
            /\ UNCHANGED <<config, avg_reward, pc, n_timesteps, i, arm>>

Next ==
    \/ learn
    \/ learn_append
    \/ initial_run_visit
    \/ initial_run_append
    \/ EpsGreedy_one_step
    \/ UCB_one_step
    \/ Softmax_one_step

Spec == Init /\ [][Next]_vars

\* ------------------------------------------------------------- claims ----
RECURSIVE RowSum(_, _)
RowSum(row, n) == IF n <= 0 THEN 0 ELSE row[n - 1] + RowSum(row, n - 1)

\* the state right after a main-loop decision shows bandit' = bandit + 1
\* while pc stays "main"
Decision == pc = "main" /\ pc' = "main" /\ bandit' = bandit + 1

InitialVisits == IF policy = "EpsGreedy" THEN 0 ELSE narms

\* a configuration the interface allows: positive sizes and temperature
ValidConfig ==
    nbandits >= 1 /\ narms >= 1 /\ (policy = "Softmax" => temp > 0)

\* C1: after learn(n) on a fresh policy, for every bandit the counts of its
\* arms sum to n plus the initial-run visits (0 for EpsGreedy, num_arms for
\* UCB and Softmax).
C1_CountsSum ==
    (ValidConfig /\ pc = "done" /\ n_timesteps >= 1) =>
        \A b \in Bandits : RowSum(counts[b], narms) = n_timesteps + InitialVisits

\* C2: whenever UCB.one_step is about to call get_action(i, bandit) in the
\* main loop, every arm of the bandit has counts >= 1 and ln(t) > 0, that
\* is t >= 2.
C2_MainLoopNonDegenerate ==
    (ValidConfig /\ policy = "UCB" /\ pc = "main" /\ bandit < nbandits) =>
        /\ \A a \in Arms : counts[bandit][a] >= 1
        /\ i >= 2

\* C3 as stated: after UCB.learn(n) the regret sequence has exactly
\* B * (A + n) entries.
C3_RegretEntriesOriginal ==
    (ValidConfig /\ policy = "UCB" /\ pc = "done" /\ n_timesteps >= 0) =>
        Len(regrets) = nbandits * (narms + n_timesteps)

\* C3 as amended: after UCB.learn(n) the regret sequence has exactly
\* 1 + B * (A + n) entries, the initial 0.0 and one per decision, and after
\* learn(0) every count is 1.
C3_RegretEntries ==
    (policy = "UCB" /\ pc = "done") =>
        LET n == IF n_timesteps > 0 THEN n_timesteps ELSE 0
        IN  /\ Len(regrets) = 1 + nbandits * (narms + n)
            /\ n = 0 => \A b \in Bandits, a \in Arms : counts[b][a] = 1

C3_Witness ==
    /\ policy = "UCB" /\ pc = "done" /\ n_timesteps = 0
    /\ nbandits = 1 /\ narms = 3
    /\ counts[0] = [a \in 0 .. 2 |-> 1]
    /\ Len(regrets) = 4

\* C4: in every reachable state the regret sequence is non-negative at
\* every index and non-decreasing.
C4_RegretMonotone ==
    \A k \in 1 .. Len(regrets) :
        /\ RLe(Zero, regrets[k])
        /\ k < Len(regrets) => RLe(regrets[k], regrets[k + 1])

C4_Witness ==
    /\ Len(regrets) >= 4
    /\ RLt(Zero, regrets[Len(regrets) - 1])
    /\ RLt(regrets[Len(regrets) - 1], regrets[Len(regrets)])

\* C5: a non-positive num_bandits or num_arms, a non-positive temperature
\* of Softmax, and a non-positive n_timesteps end in an error at
\* construction or at the entry of learn, before any estimate, count,
\* regret or reward-trajectory state has changed.
C5_Untouched ==
    /\ \A b \in Bandits, a \in Arms : Q[b][a] = Zero /\ counts[b][a] = 0
    /\ regret = Zero
    /\ regrets = <<Zero>>
    /\ avg_reward = <<>>

C5_FailFast ==
    /\ (nbandits <= 0 \/ narms <= 0 \/ (policy = "Softmax" /\ temp <= 0))
           => pc = "ctor_error"
    /\ (pc \notin {"ctor_error", "new"} /\ n_timesteps <= 0)
           => (pc = "error" /\ C5_Untouched)

\* C6: UCB.learn runs initial_run before any main-loop decision; the phase
\* visits every arm of every bandit exactly once in increasing arm order,
\* and right after it counts[b, a] = 1 for all (b, a).
C6_Visited(b, a) == b < bandit \/ (b = bandit /\ a < arm)

C6_InitialRun ==
    policy = "UCB" =>
        /\ pc = "initial_run" =>
              /\ i = 0
              /\ Len(regrets) = 1 + bandit * narms + arm
              /\ \A b \in Bandits, a \in Arms :
                    /\ counts[b][a] = IF C6_Visited(b, a) THEN 1 ELSE 0
                    /\ drawn[b][a][2] = counts[b][a]
        /\ (pc \in {"main", "done"} /\ i = 0 /\ bandit = 0) =>
              \A b \in Bandits, a \in Arms :
                    counts[b][a] = 1 /\ drawn[b][a][2] = 1
        /\ pc \in {"main", "done", "error"} =>
              \A b \in Bandits, a \in Arms : drawn[b][a][2] >= 1

C6_Witness ==
    /\ policy = "UCB" /\ pc = "main" /\ i = 0 /\ bandit = 0
    /\ nbandits = 2 /\ narms = 2
    /\ \A b \in Bandits, a \in Arms : counts[b][a] = 1

\* C7: after learn(n) on a fresh policy the reward trajectory avg_reward
\* has exactly n entries, whatever the numbers of bandits and arms.
C7_AvgRewardLen ==
    (ValidConfig /\ pc = "done" /\ n_timesteps >= 1) =>
        Len(avg_reward) = n_timesteps

\* C8: with epsilon = 0 every decision of EpsGreedy for bandit b chooses the
\* lowest-index arm attaining max(Q[b, :]) at that moment.
C8_GreedyChoice ==
    [][(policy = "EpsGreedy" /\ eps = 0 /\ Decision) =>
          /\ \A k \in Arms : RLe(Q[bandit][k], Q[bandit][action'])
          /\ \A k \in 0 .. action' - 1 : RLt(Q[bandit][k], Q[bandit][action'])]_vars

C8_Witness ==
    /\ policy = "EpsGreedy" /\ eps = 0 /\ nbandits = 1
    /\ action = 1
    /\ counts[0][0] = 1 /\ counts[0][1] = 2

\* C9: for every (b, a) that has received at least one reward, Q[b, a] is
\* the arithmetic mean of all the rewards sampled so far for (b, a).
C9_SampleMean ==
    (ValidConfig /\ n_timesteps >= 0) => \A b \in Bandits, a \in Arms :
        drawn[b][a][2] > 0 => Q[b][a] = Norm(drawn[b][a][1], drawn[b][a][2])

\* C10: a main-loop decision of UCB or Softmax for bandit b advances
\* counts[b, chosen] by exactly 2, a decision of EpsGreedy by exactly 1, and
\* no other count changes.
C10_CountStep ==
    [][Decision =>
          counts' = [counts EXCEPT ![bandit][action'] =
                        @ + (IF policy = "EpsGreedy" THEN 1 ELSE 2)]]_vars

C10_Witness ==
    /\ policy \in {"UCB", "Softmax"} /\ pc = "main" /\ bandit = 1
    /\ counts[0][action] = 3
    /\ \E a \in Arms : a # action /\ counts[0][a] = 1

=============================================================================
